---- MODULE Spec2Model ----
(***************************************************************************)
(* Model of main.py: a batch downloader.  download_resources submits one   *)
(* download_and_verify_file task per catalog resource to a thread pool of  *)
(* max_concurrent_files workers; each task skips a file whose MD5 already  *)
(* matches, otherwise fetches it (one GET, or a HEAD followed by           *)
(* num_connections ranged GETs run by download_chunk workers), verifies    *)
(* the MD5 and appends the resource to failed_resources on a mismatch.     *)
(*                                                                         *)
(* Bytes are small naturals, files are sequences of bytes (offset k of the *)
(* file is element k+1), a digest is an injective fold over the bytes      *)
(* (MD5 without collisions).  The remote server is the environment: it     *)
(* holds one content per resource and may honour a range, ignore it,       *)
(* close the body early, omit content-length, or fail the request.         *)
(***************************************************************************)
EXTENDS Integers, Sequences, FiniteSets, TLC

\* ---------------------------------------------------------------- bounds
NumRes  == 2      \* largest catalog
MaxLen  == 2      \* longest remote content / initial local file, in bytes
MaxConn == 2      \* largest num_connections
MaxTotal == 3     \* longest remote content of the one-valued files
MaxRuns == 2      \* runs of download_resources over the same directory

\* ------------------------------------------------------ program constants
BlockSize == 1024 \* chunk_size of response.iter_content in download_chunk

Res     == 1..NumRes
Workers == 0..(MaxConn - 1)
Bytes   == {0, 1}  \* 0 is the fill byte of truncate(), 1 any other byte

Min(a, b) == IF a < b THEN a ELSE b
Max(a, b) == IF a > b THEN a ELSE b

SeqsUpTo(n) == UNION {[1..k -> Bytes] : k \in 0..n}
Contents    == SeqsUpTo(MaxLen)

Prefixes(s) == {SubSeq(s, 1, k) : k \in 0..Len(s)}

\* ------------------------------------------------------------ calculate_md5
DigestBase == Cardinality(Bytes) + 1

RECURSIVE Md5Update(_, _)
Md5Update(h, data) ==
  IF data = <<>> THEN h
  ELSE Md5Update(h * DigestBase + Head(data) + 1, Tail(data))

\* digest of the full byte content of a file
calculate_md5(data) == Md5Update(0, data)

\* ------------------------------------------- download_file_multi_connection
\* a partition that forgets line 30, the extension of the last chunk
ChunksNoTail(total_size, n) ==
  LET chunk_size == total_size \div n
  IN  [i \in 1..n |-> <<(i - 1) * chunk_size, i * chunk_size - 1>>]

\* the (start, end) list of lines 28-30; worker idx owns element idx + 1
Chunks(total_size, n) ==
  LET chunk_size == total_size \div n
      even == [i \in 1..n |-> <<(i - 1) * chunk_size, i * chunk_size - 1>>]
  IN  [even EXCEPT ![n] = <<even[n][1], total_size - 1>>]

\* open(dest_path, 'wb'); f.truncate(total_size)
Preallocate(total_size) == [k \in 1..total_size |-> 0]

\* ------------------------------------------------------------ file writes
\* a write that ignores the offset of f.seek(start) and starts at 0
WriteAtNoSeek(data, off, block) ==
  LET newLen == Max(Len(data), Len(block))
  IN  [k \in 1..newLen |-> IF k <= Len(block) THEN block[k] ELSE data[k]]

\* write block at absolute offset off; a write past the end extends the file
WriteAt(data, off, block) ==
  LET newLen == Max(Len(data), off + Len(block))
  IN  [k \in 1..newLen |->
         IF k > off /\ k <= off + Len(block) THEN block[k - off]
         ELSE IF k <= Len(data) THEN data[k]
         ELSE 0]

\* the next block response.iter_content(chunk_size=1024) yields
NextBlock(body) == SubSeq(body, 1, Min(Len(body), BlockSize))
AfterBlock(body) == SubSeq(body, Min(Len(body), BlockSize) + 1, Len(body))

\* open(dest_path, 'ab'): the content is kept and the writes go to its end
OpenAppend(data) == data

\* open(dest_path, 'wb') of line 71: the file is truncated to nothing
OpenWb(data) == <<>>

\* lines 72-74: the blocks of a body written one after the other
RECURSIVE StreamInto(_, _)
StreamInto(data, b) ==
  IF b = <<>> THEN data
  ELSE StreamInto(data \o NextBlock(b), AfterBlock(b))

\* ------------------------------------------------------------------ server
\* the bytes start..end of a content, clipped to its length
Slice(content, start, end) == SubSeq(content, start + 1, Min(end + 1, Len(content)))

\* bodies a GET with 'Range: bytes=start-end' may deliver: the range, the
\* whole content (range ignored or malformed), or either one cut short
RangeBodies(content, start, end) ==
  Prefixes(Slice(content, start, end)) \cup Prefixes(content)

\* total_size values a HEAD may yield: the length, or 0 without the header
HeadSizes(content) == {Len(content), 0}

\* ------------------------------------------------------------------- state
VARIABLES
  resources,            \* the catalog: the set of resource ids 1..n
  use_multi_connection, \* run configuration
  num_connections,
  max_concurrent_files,
  md5,                  \* md5[r]: resource['md5'], the expected digest
  remote,               \* remote[r]: the content the server holds for r
  file,                 \* file[r]: [exists, data] of the destination file
  pc,                   \* pc[r]: position of download_and_verify_file(r)
  exc,                  \* exc[r]: the exception that ended the task of r
  total_size,           \* total_size[r]: the size probed by HEAD
  wpc,                  \* wpc[r][i]: position of download_chunk idx i of r
  body,                 \* body[r][i]: response bytes not yet written
  cursor,               \* cursor[h]: position of file handle h
  written,              \* written[r][i]: bytes worker i has written so far
  wrote,                \* wrote[r][i]: the offsets worker i has written
  short,                \* short[r]: some chunk body was shorter than its range
  exact,                \* exact[r]: every chunk body so far was exactly its range
  stale,                \* stale[r]: the invocation under way for r found, at its
                        \* pre-check, a file with a wrong digest
  received,             \* received[r]: the body the single-stream GET delivered
  requests_sent,        \* requests_sent[r]: HEAD/GET requests issued for r
  failed_resources,     \* the shared failure list
  report,               \* [written, content] of the failed-resources JSON
  batch,                \* position of download_resources
  run                   \* the number of this run of download_resources

config == <<resources, use_multi_connection, num_connections,
            max_concurrent_files, md5, remote>>
chunkv == <<wpc, body, cursor, written, wrote, short, exact>>
history == <<run>>
fetchv == <<stale, received>>
vars   == <<config, history, fetchv, file, pc, exc, total_size, chunkv, requests_sent,
            failed_resources, report, batch>>

NoFile == [exists |-> FALSE, data |-> <<>>]
FileOf(data) == [exists |-> TRUE, data |-> data]

Terminal == {"skipped", "succeeded", "failed", "raised"}
WorkerEnded == {"done", "raised"}

\* workers of one file: idx 0 .. num_connections - 1
ChunkIdx == 0..(num_connections - 1)
ChunkOf(r, i) == Chunks(total_size[r], num_connections)[i + 1]

\* ---------------------------------------------------------------- initial
\* the state when download_resources has submitted every file task
InitWith(n, conns, remotes, sums, locals) ==
  /\ resources = 1..n
  /\ use_multi_connection \in BOOLEAN
  /\ num_connections \in conns
  /\ max_concurrent_files \in 1..n
  /\ \E rm \in [1..n -> remotes] :
       remote = [r \in Res |-> IF r \in 1..n THEN rm[r] ELSE <<>>]
  /\ \E sm \in [1..n -> {calculate_md5(c) : c \in sums}] :
       md5 = [r \in Res |-> IF r \in 1..n THEN sm[r] ELSE calculate_md5(<<>>)]
  /\ \E fl \in [1..n -> {NoFile} \cup {FileOf(c) : c \in locals}] :
       file = [r \in Res |-> IF r \in 1..n THEN fl[r] ELSE NoFile]
  /\ pc = [r \in Res |-> IF r \in resources THEN "queued" ELSE "absent"]
  /\ exc = [r \in Res |-> "none"]
  /\ total_size = [r \in Res |-> 0]
  /\ wpc = [r \in Res |-> [i \in Workers |-> "idle"]]
  /\ body = [r \in Res |-> [i \in Workers |-> <<>>]]
  /\ cursor = [r \in Res |-> [i \in Workers |-> 0]]
  /\ written = [r \in Res |-> [i \in Workers |-> 0]]
  /\ wrote = [r \in Res |-> [i \in Workers |-> {}]]
  /\ short = [r \in Res |-> FALSE]
  /\ exact = [r \in Res |-> TRUE]
  /\ stale = [r \in Res |-> FALSE]
  /\ received = [r \in Res |-> <<>>]
  /\ requests_sent = [r \in Res |-> 0]
  /\ failed_resources = <<>>
  /\ report = [written |-> FALSE, content |-> <<>>]
  /\ batch = "running"
  /\ run = 1

\* one file, every content of up to MaxLen bytes, every connection count
InitOneFile == InitWith(1, 0..MaxConn, Contents, Contents, Contents)
\* a full catalog of one-byte files, each with a right or a wrong checksum
\* and absent or already downloaded, fetched over at most one connection
InitBatch == InitWith(NumRes, 0..1, {<<1>>}, {<<0>>, <<1>>}, {<<1>>})
\* one longer file of bytes 1, absent locally, its checksum right
Ones(k) == [j \in 1..k |-> 1]
InitLong ==
  \E k \in 0..MaxTotal :
    InitWith(1, 1..MaxConn, {Ones(k)}, {Ones(k)}, {})

Init == InitOneFile \/ InitBatch \/ InitLong

\* the runs of a full catalog whose local files, where present, have the
\* expected digest, and of one longer file
LiveInit ==
  \/ /\ InitBatch
     /\ \A r \in resources :
          file[r].exists => calculate_md5(file[r].data) = md5[r]
  \/ InitLong

\* ------------------------------------------------------------ thread pools
Running(r) == pc[r] \in {"check", "head", "get", "chunks", "verify"}

\* a file pool that admits one task more than max_workers
FilePoolFreeOffByOne ==
  Cardinality({q \in resources : Running(q)}) <= max_concurrent_files

\* line 97: ThreadPoolExecutor(max_workers=max_concurrent_files) has a thread
\* left for another task
FilePoolFree ==
  Cardinality({q \in resources : Running(q)}) < max_concurrent_files

\* a worker of the file pool takes the oldest queued task (FIFO work queue)
StartFile(r) ==
  /\ batch = "running"
  /\ pc[r] = "queued"
  /\ \A q \in resources : q < r => pc[q] # "queued"
  /\ FilePoolFree
  /\ pc' = [pc EXCEPT ![r] = "check"]
  /\ UNCHANGED <<config, history, fetchv, file, exc, total_size, chunkv, requests_sent,
                 failed_resources, report, batch>>

\* --------------------------------------------------- download_and_verify_file
\* lines 53-58: skip a file whose digest already equals resource['md5']
\* a pre-check that never finds the file valid
ExistingValidNever(r) == FALSE

\* a pre-check with the comparison inverted
ExistingValidInverted(r) ==
  file[r].exists /\ calculate_md5(file[r].data) # md5[r]

ExistingValid(r) ==
  file[r].exists /\ calculate_md5(file[r].data) = md5[r]

CheckExisting(r) ==
  /\ pc[r] = "check"
  /\ pc' = [pc EXCEPT ![r] =
              IF ExistingValid(r) THEN "skipped"
              ELSE IF use_multi_connection THEN "head" ELSE "get"]
  /\ stale' = [stale EXCEPT ![r] = file[r].exists /\ ~ExistingValid(r)]
  /\ UNCHANGED <<config, history, received, file, exc, total_size, chunkv, requests_sent,
                 failed_resources, report, batch>>

\* lines 62-64 and 28-41: HEAD, partition, preallocate, submit the chunks
StartChunked(r) ==
  /\ pc[r] = "head"
  /\ requests_sent' = [requests_sent EXCEPT ![r] = @ + 1]
  /\ \/ \* requests.head raises
        /\ pc' = [pc EXCEPT ![r] = "raised"]
        /\ exc' = [exc EXCEPT ![r] = "RequestException"]
        /\ UNCHANGED <<file, total_size, chunkv>>
     \/ \* total_size // num_connections or chunks[-1] raises
        /\ num_connections <= 0
        /\ \E t \in HeadSizes(remote[r]) :
             total_size' = [total_size EXCEPT ![r] = t]
        /\ pc' = [pc EXCEPT ![r] = "raised"]
        /\ exc' = [exc EXCEPT ![r] = "ZeroDivisionError"]
        /\ UNCHANGED <<file, chunkv>>
     \/ /\ num_connections >= 1
        /\ \E t \in HeadSizes(remote[r]) :
             /\ total_size' = [total_size EXCEPT ![r] = t]
             /\ file' = [file EXCEPT ![r] = FileOf(Preallocate(t))]
        /\ wpc' = [wpc EXCEPT ![r] =
                     [i \in Workers |-> IF i \in ChunkIdx THEN "queued" ELSE "idle"]]
        /\ pc' = [pc EXCEPT ![r] = "chunks"]
        /\ UNCHANGED <<exc, body, cursor, written, wrote, short, exact>>
  /\ stale' = [stale EXCEPT ![r] = @ /\ pc'[r] \notin Terminal]
  /\ UNCHANGED <<config, history, received, failed_resources, report, batch>>

\* ---------------------------------------------------------- download_chunk
\* one file object shared by every chunk worker of the file
SharedHandle(r, i) == 0

\* each download_chunk call opens its own file object: handle idx of file r
Handle(r, i) == i

\* chunk tasks that run on the threads of the file pool, which the file
\* tasks waiting for them already occupy
ChunkPoolShared(r) ==
  Cardinality({q \in resources : Running(q)})
    + Cardinality({i \in Workers : wpc[r][i] = "writing"}) < max_concurrent_files

\* line 37: the file's own ThreadPoolExecutor(max_workers=num_connections)
\* has a thread left for another chunk
ChunkPoolFree(r) ==
  Cardinality({i \in Workers : wpc[r][i] = "writing"}) < num_connections

\* lines 18-21: the ranged GET, open(dest_path, 'r+b'), f.seek(start)
ChunkRequest(r, i) ==
  /\ pc[r] = "chunks"
  /\ i \in ChunkIdx
  /\ wpc[r][i] = "queued"
  /\ ChunkPoolFree(r)
  /\ requests_sent' = [requests_sent EXCEPT ![r] = @ + 1]
  /\ \/ \* requests.get raises
        /\ wpc' = [wpc EXCEPT ![r][i] = "raised"]
        /\ UNCHANGED <<body, cursor, short, exact>>
     \/ \E b \in RangeBodies(remote[r], ChunkOf(r, i)[1], ChunkOf(r, i)[2]) :
          /\ body' = [body EXCEPT ![r][i] = b]
          /\ cursor' = [cursor EXCEPT ![r][Handle(r, i)] = ChunkOf(r, i)[1]]
          /\ short' = [short EXCEPT ![r] =
                         @ \/ Len(b) < ChunkOf(r, i)[2] - ChunkOf(r, i)[1] + 1]
          /\ exact' = [exact EXCEPT ![r] =
                         @ /\ b = Slice(remote[r], ChunkOf(r, i)[1], ChunkOf(r, i)[2])]
          /\ wpc' = [wpc EXCEPT ![r][i] = IF b = <<>> THEN "done" ELSE "writing"]
  /\ UNCHANGED <<config, history, fetchv, file, pc, exc, total_size, written, wrote,
                 failed_resources, report, batch>>

\* lines 22-24: f.write of the next block at the handle's position; after
\* the last block the file object is closed and the index returned
ChunkWrite(r, i) ==
  /\ wpc[r][i] = "writing"
  /\ LET block == NextBlock(body[r][i])
         off   == cursor[r][Handle(r, i)]
     IN  /\ file' = [file EXCEPT ![r] = FileOf(WriteAt(file[r].data, off, block))]
         /\ cursor' = [cursor EXCEPT ![r][Handle(r, i)] = off + Len(block)]
         /\ written' = [written EXCEPT ![r][i] = @ + Len(block)]
         /\ wrote' = [wrote EXCEPT ![r][i] = @ \cup (off..(off + Len(block) - 1))]
         /\ body' = [body EXCEPT ![r][i] = AfterBlock(body[r][i])]
         /\ wpc' = [wpc EXCEPT ![r][i] =
                      IF AfterBlock(body[r][i]) = <<>> THEN "done" ELSE "writing"]
  /\ UNCHANGED <<config, history, fetchv, pc, exc, total_size, short, exact, requests_sent,
                 failed_resources, report, batch>>

\* response.iter_content raises while the body is streamed
ChunkAbort(r, i) ==
  /\ wpc[r][i] = "writing"
  /\ wpc' = [wpc EXCEPT ![r][i] = "raised"]
  /\ body' = [body EXCEPT ![r][i] = <<>>]
  /\ UNCHANGED <<config, history, fetchv, file, pc, exc, total_size, cursor, written, wrote,
                 short, exact, requests_sent, failed_resources, report, batch>>

\* a join that returns as soon as the first chunk has ended
FirstChunkEnded(r) == \E i \in ChunkIdx : wpc[r][i] \in WorkerEnded

\* a join that gives up on the other chunks as soon as one has raised
RaisedOrAllEnded(r) ==
  \/ \E i \in ChunkIdx : wpc[r][i] = "raised"
  \/ \A i \in ChunkIdx : wpc[r][i] \in WorkerEnded

\* the exit of the with block of line 37 is shutdown(wait=True): every
\* submitted chunk has ended, none is cancelled
AllChunksEnded(r) == \A i \in ChunkIdx : wpc[r][i] \in WorkerEnded

\* lines 42-43 and the exit of the with block: every future has ended;
\* future.result() re-raises the exception of a failed chunk
JoinChunks(r) ==
  /\ pc[r] = "chunks"
  /\ AllChunksEnded(r)
  /\ IF \E i \in ChunkIdx : wpc[r][i] = "raised"
       THEN /\ pc' = [pc EXCEPT ![r] = "raised"]
            /\ exc' = [exc EXCEPT ![r] = "RequestException"]
       ELSE /\ pc' = [pc EXCEPT ![r] = "verify"]
            /\ UNCHANGED exc
  /\ stale' = [stale EXCEPT ![r] = @ /\ pc'[r] \notin Terminal]
  /\ UNCHANGED <<config, history, received, file, total_size, chunkv,
                 requests_sent, failed_resources, report, batch>>

\* lines 67-75: one GET streamed into open(dest_path, 'wb')
SingleStream(r) ==
  /\ pc[r] = "get"
  /\ requests_sent' = [requests_sent EXCEPT ![r] = @ + 1]
  /\ \/ \* requests.get raises
        /\ pc' = [pc EXCEPT ![r] = "raised"]
        /\ exc' = [exc EXCEPT ![r] = "RequestException"]
        /\ UNCHANGED <<file, received>>
     \/ \E b \in Prefixes(remote[r]) :
          /\ received' = [received EXCEPT ![r] = b]
          /\ file' = [file EXCEPT ![r] =
                        FileOf(StreamInto(OpenWb(file[r].data), b))]
          /\ \/ /\ pc' = [pc EXCEPT ![r] = "verify"]
                /\ UNCHANGED exc
             \/ \* iter_content raises after b was written
                /\ pc' = [pc EXCEPT ![r] = "raised"]
                /\ exc' = [exc EXCEPT ![r] = "RequestException"]
  /\ stale' = [stale EXCEPT ![r] = @ /\ pc'[r] \notin Terminal]
  /\ UNCHANGED <<config, history, total_size, chunkv, failed_resources,
                 report, batch>>

\* a racy append: the slot index was read before another append landed
AppendFailedRacy(list, r) ==
  IF list = <<>> THEN <<r>> ELSE [list EXCEPT ![Len(list)] = r]

\* line 81: failed_resources.append(resource), one atomic list operation
AppendFailed(list, r) == Append(list, r)

\* a comparison that never reports a mismatch
MismatchNever(downloaded_md5, expected) == FALSE

\* line 79: downloaded_md5 != resource['md5']
Mismatch(downloaded_md5, expected) == downloaded_md5 # expected

\* lines 77-83: verify the digest, record a mismatch
Verify(r) ==
  /\ pc[r] = "verify"
  /\ IF Mismatch(calculate_md5(file[r].data), md5[r])
       THEN /\ failed_resources' = AppendFailed(failed_resources, r)
            /\ pc' = [pc EXCEPT ![r] = "failed"]
       ELSE /\ pc' = [pc EXCEPT ![r] = "succeeded"]
            /\ UNCHANGED failed_resources
  /\ stale' = [stale EXCEPT ![r] = @ /\ pc'[r] \notin Terminal]
  /\ UNCHANGED <<config, history, received, file, exc, total_size, chunkv,
                 requests_sent, report, batch>>

\* --------------------------------------------------------- download_resources
\* a reporter that dumps the failure list even when it is empty
ReportAlways(old, failed) == [written |-> TRUE, content |-> failed]

\* lines 110-113: the report file after the run, given the failure list
ReportAfter(old, failed) ==
  IF failed # <<>> THEN [written |-> TRUE, content |-> failed] ELSE old

\* lines 106-114: every future has ended; future.result() re-raises the
\* exception of a file task, otherwise a non-empty failure list is dumped
Finish ==
  /\ batch = "running"
  /\ \A r \in resources : pc[r] \in Terminal
  /\ IF \E r \in resources : pc[r] = "raised"
       THEN /\ batch' = "error"
            /\ UNCHANGED report
       ELSE /\ batch' = "done"
            /\ report' = ReportAfter(report, failed_resources)
  /\ UNCHANGED <<config, history, fetchv, file, pc, exc, total_size, chunkv, requests_sent,
                 failed_resources>>

Next ==
  \/ \E r \in resources : StartFile(r)
  \/ \E r \in resources : CheckExisting(r)
  \/ \E r \in resources : StartChunked(r)
  \/ \E r \in resources : \E i \in Workers : ChunkRequest(r, i)
  \/ \E r \in resources : \E i \in Workers : ChunkWrite(r, i)
  \/ \E r \in resources : \E i \in Workers : ChunkAbort(r, i)
  \/ \E r \in resources : JoinChunks(r)
  \/ \E r \in resources : SingleStream(r)
  \/ \E r \in resources : Verify(r)
  \/ Finish

Spec == Init /\ [][Next]_vars

\* the program is started again on the same catalog and directories after
\* a run that left every file downloaded: lines 94-103 of the new process,
\* the files and the report stay on disk
Rerun ==
  /\ batch = "done"
  /\ \A r \in resources : pc[r] \in {"succeeded", "skipped"}
  /\ run < MaxRuns
  /\ run' = run + 1
  /\ pc' = [r \in Res |-> IF r \in resources THEN "queued" ELSE "absent"]
  /\ exc' = [r \in Res |-> "none"]
  /\ total_size' = [r \in Res |-> 0]
  /\ wpc' = [r \in Res |-> [i \in Workers |-> "idle"]]
  /\ body' = [r \in Res |-> [i \in Workers |-> <<>>]]
  /\ cursor' = [r \in Res |-> [i \in Workers |-> 0]]
  /\ written' = [r \in Res |-> [i \in Workers |-> 0]]
  /\ wrote' = [r \in Res |-> [i \in Workers |-> {}]]
  /\ short' = [r \in Res |-> FALSE]
  /\ exact' = [r \in Res |-> TRUE]
  /\ stale' = [r \in Res |-> FALSE]
  /\ received' = [r \in Res |-> <<>>]
  /\ requests_sent' = [r \in Res |-> 0]
  /\ failed_resources' = <<>>
  /\ batch' = "running"
  /\ UNCHANGED <<config, file, report>>

NextRerun == Next \/ Rerun

RerunSpec == LiveInit /\ [][NextRerun]_vars

\* every request and file operation returns and the threads are scheduled:
\* while some step is possible, a step is taken
LiveSpec == LiveInit /\ [][Next]_vars /\ WF_vars(Next)

\* ------------------------------------------------------------------ claims
Count(list, r) == Cardinality({k \in 1..Len(list) : list[k] = r})
SeqSet(list) == {list[k] : k \in 1..Len(list)}
Offsets(c) == c[1]..c[2]
Mismatched == {r \in resources : pc[r] = "failed"}
Chunked(r) ==
  use_multi_connection /\ pc[r] \in {"chunks", "verify", "succeeded", "failed"}
\* the run configuration the external interface asks for
ValidConfig == num_connections >= 1 /\ max_concurrent_files >= 1

\* C1: under a valid configuration, when download_resources has ended and
\* some resource ended with a checksum mismatch, every resource of the batch
\* is Succeeded, Skipped or Failed and the failure report holds exactly the
\* mismatching resources.
C1_FailureIsolation ==
  (ValidConfig /\ batch # "running" /\ Mismatched # {}) =>
    /\ \A r \in resources : pc[r] \in {"succeeded", "skipped", "failed"}
    /\ report.written
    /\ SeqSet(report.content) = Mismatched

\* C2: under a valid configuration a fetch failure of a resource becomes a
\* Failed outcome: the resource is in the failure set and no exception
\* reaches download_resources.
C2_FetchFailureIsFailed ==
  \A r \in resources :
    (ValidConfig /\ exc[r] = "RequestException") =>
      /\ pc[r] = "failed"
      /\ Count(failed_resources, r) = 1
      /\ batch # "error"

\* C3: a resource whose destination file exists with the expected digest
\* never leaves the pre-check for a fetch: in every step it stays queued,
\* checking or Skipped, no request is sent for it and its file is untouched.
C3_ValidExistingSkipped ==
  [][\A r \in resources :
       (/\ pc[r] \in {"queued", "check", "skipped"}
        /\ file[r].exists
        /\ calculate_md5(file[r].data) = md5[r])
       => /\ pc'[r] \in {"queued", "check", "skipped"}
          /\ pc[r] = "check" => pc'[r] \in {"check", "skipped"}
          /\ file'[r] = file[r]
          /\ requests_sent[r] = 0
          /\ requests_sent'[r] = 0]_vars

C3_Witness ==
  \E r \in resources :
    /\ pc[r] = "skipped"
    /\ use_multi_connection
    /\ file[r].data # <<>>
    /\ requests_sent[r] = 0

\* the properties of a chunk list cs for total_size t that C4 names
Disjoint(cs) ==
  \A i, j \in 1..Len(cs) : i # j => Offsets(cs[i]) \cap Offsets(cs[j]) = {}
Contiguous(cs) ==
  /\ cs[1][1] = 0
  /\ \A i \in 1..(Len(cs) - 1) : cs[i + 1][1] = cs[i][2] + 1
Covers(cs, t) ==
  /\ UNION {Offsets(cs[i]) : i \in 1..Len(cs)} = 0..(t - 1)
  /\ cs[Len(cs)][2] = t - 1

\* C4 as stated: for T >= 1 and N >= 1 the N ranges are pairwise disjoint,
\* contiguous, cover exactly [0, T-1], the last ends at T-1, and each has
\* start <= end.
C4_PartitionNonEmpty ==
  \A r \in resources :
    (pc[r] = "chunks" /\ total_size[r] >= 1) =>
      LET cs == Chunks(total_size[r], num_connections)
      IN  /\ Len(cs) = num_connections
          /\ Disjoint(cs) /\ Contiguous(cs) /\ Covers(cs, total_size[r])
          /\ \A i \in 1..Len(cs) : cs[i][1] <= cs[i][2]

\* C4 amended: for T >= 1 and N >= 1 the N ranges are pairwise disjoint,
\* contiguous, cover exactly [0, T-1] and the last ends at T-1; each has
\* start <= end + 1, and start <= end whenever T >= N (with T < N the
\* first N-1 ranges are the empty range (0, -1)).
C4_Partition ==
  \A r \in resources :
    (pc[r] = "chunks" /\ total_size[r] >= 1) =>
      LET cs == Chunks(total_size[r], num_connections)
      IN  /\ Len(cs) = num_connections
          /\ Disjoint(cs) /\ Contiguous(cs) /\ Covers(cs, total_size[r])
          /\ \A i \in 1..Len(cs) : cs[i][1] <= cs[i][2] + 1
          /\ total_size[r] >= num_connections =>
               \A i \in 1..Len(cs) : cs[i][1] <= cs[i][2]
          /\ total_size[r] < num_connections =>
               \A i \in 1..(Len(cs) - 1) : cs[i] = <<0, -1>>

C4_Witness ==
  \E r \in resources :
    /\ pc[r] = "chunks"
    /\ total_size[r] >= 1
    /\ total_size[r] < num_connections

\* C5: the digest of a chunked download is computed only when every
\* download_chunk of the file has ended.
C5_VerifyAfterChunks ==
  \A r \in resources :
    (use_multi_connection /\ pc[r] \in {"verify", "succeeded", "failed"}) =>
      \A i \in ChunkIdx : wpc[r][i] \in WorkerEnded

C5_Witness ==
  \E r \in resources :
    /\ use_multi_connection
    /\ num_connections >= 2
    /\ pc[r] = "verify"
    /\ \A i \in ChunkIdx : wpc[r][i] = "done" /\ written[r][i] >= 1

\* C6: no append to failed_resources is lost or duplicated: a resource is
\* in the list once if it ended with a checksum mismatch and not at all
\* otherwise, and the report that is written holds that list.
C6_AppendsExclusive ==
  /\ \A r \in resources :
       Count(failed_resources, r) = IF pc[r] = "failed" THEN 1 ELSE 0
  /\ report.written =>
       /\ report.content = failed_resources
       /\ \A r \in Mismatched : Count(report.content, r) = 1

C6_Witness ==
  /\ max_concurrent_files >= 2
  /\ report.written
  /\ Len(report.content) >= 2

\* C7: the position at which a chunk worker writes next is its own start
\* offset plus the bytes it has written itself, and the offsets it has
\* written are exactly that span, whatever the other workers do.
C7_OwnCursor ==
  \A r \in resources : \A i \in ChunkIdx :
    /\ wpc[r][i] = "writing" =>
         cursor[r][Handle(r, i)] = ChunkOf(r, i)[1] + written[r][i]
    /\ wpc[r][i] \in {"writing", "done", "raised"} =>
         wrote[r][i] = ChunkOf(r, i)[1]..(ChunkOf(r, i)[1] + written[r][i] - 1)

C7_Witness ==
  \E r \in resources : \E i, j \in ChunkIdx :
    /\ i # j
    /\ wpc[r][i] = "writing"
    /\ wpc[r][j] = "writing"
    /\ ChunkOf(r, i)[1] # ChunkOf(r, j)[1]

\* C8: a resource one of whose chunk fetches got fewer bytes than its
\* range width never ends Succeeded.
C8_ShortReadFails ==
  \A r \in resources : short[r] => pc[r] # "succeeded"

\* C9: in a chunked download whose ranges are all non-empty, a chunk worker
\* writes only offsets of its own range, the file keeps the preallocated
\* length, and no two workers write the same offset.
C9_WritesInsideRange ==
  \A r \in resources :
    (Chunked(r) /\ total_size[r] >= num_connections) =>
      /\ \A i \in ChunkIdx : wrote[r][i] \subseteq Offsets(ChunkOf(r, i))
      /\ Len(file[r].data) = total_size[r]
      /\ \A i, j \in ChunkIdx : i # j => wrote[r][i] \cap wrote[r][j] = {}

\* C10: a chunked download whose probed total size is 0 never ends
\* Succeeded, and no chunk fetch is issued for it.
C10_ZeroSizeIsError ==
  \A r \in resources :
    (Chunked(r) /\ total_size[r] = 0) =>
      /\ pc[r] # "succeeded"
      /\ \A i \in ChunkIdx : wpc[r][i] = "queued"

\* C11: at most max_concurrent_files download_and_verify_file invocations
\* execute at once, and of each file at most num_connections download_chunk
\* invocations.
C11_BoundedFanOut ==
  /\ Cardinality({r \in resources :
                    pc[r] \in {"check", "head", "get", "chunks", "verify"}})
       <= max_concurrent_files
  /\ \A r \in resources :
       Cardinality({i \in Workers : wpc[r][i] = "writing"}) <= num_connections

C11_Witness ==
  /\ max_concurrent_files < Cardinality(resources)
  /\ Cardinality({r \in resources : pc[r] \in {"check", "head", "get", "chunks", "verify"}})
       = max_concurrent_files
  /\ \E r \in resources : pc[r] = "queued"

\* some request or chunk of the run raised instead of returning
SomeRaise ==
  \E r \in resources :
    exc[r] # "none" \/ \E i \in Workers : wpc[r][i] = "raised"

\* C12: under fair scheduling download_resources ends in every run; when
\* every request and file operation returned, every resource has then ended
\* Skipped, Succeeded or Failed; and an outcome, once produced, never changes.
C12_Terminates ==
  /\ <>(/\ batch # "running"
        /\ SomeRaise \/ \A r \in resources :
                          pc[r] \in {"skipped", "succeeded", "failed"})
  /\ [][\A r \in resources : pc[r] \in Terminal => pc'[r] = pc[r]]_vars

C12_Witness ==
  /\ batch = "done"
  /\ use_multi_connection
  /\ max_concurrent_files < Cardinality(resources)
  /\ ~SomeRaise
  /\ \A r \in resources : pc[r] \in {"succeeded", "failed"}

\* C13: the report file changes only in the step that ends a run all of
\* whose file tasks have terminated and whose failure list is non-empty, and
\* then holds that list; a run that ends with an empty list leaves it alone.
C13_ReportOnlyAtEnd ==
  [][/\ report' # report =>
          /\ \A r \in resources : pc[r] \in Terminal
          /\ batch = "running" /\ batch' = "done"
          /\ failed_resources # <<>>
          /\ report' = [written |-> TRUE, content |-> failed_resources]
     /\ (batch' = "done" /\ failed_resources' = <<>>) => report' = report]_vars

C13_Witness ==
  /\ batch = "done"
  /\ failed_resources = <<>>
  /\ ~report.written
  /\ \E r \in resources : pc[r] = "succeeded"

\* C14: in a run that follows a run in which every resource ended Succeeded
\* or Skipped, no request is sent, every resource stays queued, checking or
\* Skipped, no file changes and no failure report exists.
C14_SecondRunIdempotent ==
  [][run >= 2 =>
       /\ file' = file
       /\ \A r \in resources :
            /\ requests_sent[r] = 0 /\ requests_sent'[r] = 0
            /\ pc'[r] \in {"queued", "check", "skipped"}
       /\ failed_resources' = <<>>
       /\ ~report'.written
       /\ batch' # "error"]_vars

C14_Witness ==
  /\ run = 2
  /\ batch = "done"
  /\ Cardinality(resources) >= 2
  /\ \A r \in resources : pc[r] = "skipped" /\ file[r].data # <<>>

\* C15: when HEAD gave the length T >= 1 of the content and every chunk
\* body was exactly its range, the file of a finished chunked download is
\* byte for byte the file a single-stream download of the content writes,
\* so the digests agree.
C15_ChunkingDigestInvariant ==
  \A r \in resources :
    (/\ use_multi_connection
     /\ pc[r] \in {"verify", "succeeded", "failed"}
     /\ exact[r]
     /\ total_size[r] = Len(remote[r])
     /\ total_size[r] >= 1)
    => /\ file[r].data = StreamInto(<<>>, remote[r])
       /\ calculate_md5(file[r].data) = calculate_md5(StreamInto(<<>>, remote[r]))

C15_Witness ==
  \E r \in resources :
    /\ use_multi_connection
    /\ num_connections >= 2
    /\ pc[r] = "succeeded"
    /\ exact[r]
    /\ total_size[r] = Len(remote[r])
    /\ total_size[r] > num_connections
    /\ total_size[r] % num_connections # 0
    /\ \A i \in ChunkIdx : written[r][i] >= 1

\* C16: a run started with num_connections <= 0 never has a resource end
\* Succeeded and never ends normally, in either fetch mode and whatever
\* the local files are.
C16_InvalidConnCountFatal ==
  num_connections <= 0 =>
    /\ \A r \in resources : pc[r] # "succeeded"
    /\ batch # "done"

\* C17: while the invocation that found an existing file with a wrong
\* digest is under way, it is fetching, never Skipped; after a complete
\* single-stream fetch the file is exactly the body the GET delivered, and
\* in chunked mode, as long as no chunk worker has written, the file is
\* total_size zero bytes.
C17_StaleFileRefetched ==
  \A r \in resources :
    stale[r] =>
      /\ pc[r] \in {"head", "get", "chunks", "verify"}
      /\ (~use_multi_connection /\ pc[r] = "verify")
           => file[r] = FileOf(received[r])
      /\ (/\ use_multi_connection
          /\ pc[r] = "chunks"
          /\ \A i \in Workers : written[r][i] = 0)
           => file[r] = FileOf([k \in 1..total_size[r] |-> 0])

\* the stale file was longer than the body that replaced it: its digest was
\* not that of the empty content, the complete body was empty
C17_Witness ==
  \E r \in resources :
    /\ stale[r]
    /\ ~use_multi_connection
    /\ pc[r] = "verify"
    /\ md5[r] = calculate_md5(<<>>)
    /\ received[r] = <<>>

\* C18: a resource for which download_and_verify_file returned true (Skipped
\* by the pre-check or Succeeded by the verification) has a destination file
\* whose digest is the expected checksum and is not in the failure list;
\* a resource in the failure list is there once and returned false.
C18_TrueOnlyOnMatch ==
  \A r \in resources :
    /\ pc[r] \in {"skipped", "succeeded"} =>
         /\ file[r].exists
         /\ calculate_md5(file[r].data) = md5[r]
         /\ Count(failed_resources, r) = 0
    /\ Count(failed_resources, r) >= 1 =>
         /\ pc[r] = "failed"
         /\ Count(failed_resources, r) = 1
         /\ calculate_md5(file[r].data) # md5[r]

C18_Witness ==
  /\ \E r \in resources : pc[r] = "succeeded" /\ requests_sent[r] >= 1
  /\ \E q \in resources : pc[q] = "failed" /\ Count(failed_resources, q) = 1

\* C19: once a chunk worker of a file has raised, the file is never verified
\* and the resource never Succeeded, and when the error has left
\* download_file_multi_connection every chunk worker of the file has run
\* to its end, none was left unstarted or half-way.
C19_FailedChunkWaitsForRest ==
  \A r \in resources :
    (\E i \in ChunkIdx : wpc[r][i] = "raised") =>
      /\ pc[r] \in {"chunks", "raised"}
      /\ pc[r] = "raised" =>
           \A i \in ChunkIdx : wpc[r][i] \in {"done", "raised"}

C19_Witness ==
  \E r \in resources :
    /\ pc[r] = "raised"
    /\ \E i \in ChunkIdx, j \in ChunkIdx :
         /\ wpc[r][i] = "raised"
         /\ wpc[r][j] = "done"
         /\ written[r][j] >= 1

====
